---- MODULE Spec2Model ----
(***************************************************************************)
(* The App component of src/App.tsx as a state machine.                    *)
(*                                                                         *)
(* The React state of the component (the useState cells) is the state of   *)
(* the model.  Every event handler of the component is one action: a       *)
(* handler runs to completion before the browser dispatches the next       *)
(* event, and the continuation of an await runs to completion in the same  *)
(* way, so the part of handleAnalyze before its await is one step and the  *)
(* part after it (try / catch / finally) is another.  A control that the   *)
(* render does not show, or shows disabled, dispatches no event: the guard *)
(* of a click action is the render condition of its button.  The setters   *)
(* called within one such step are committed together: no event is         *)
(* dispatched between them.                                                *)
(*                                                                         *)
(* Each handler is written as an operator from the state it closes over    *)
(* to the state it leaves, named as in the source; the action of an event  *)
(* commits the handler's result to the variables.  `ref` is a second run   *)
(* of the same handlers on the same inputs in which the startup probe has  *)
(* not answered, kept beside the first to compare the two.                 *)
(*                                                                         *)
(* Text is a sequence of one-character strings, so that trim() and         *)
(* split('\n') are computed rather than assumed.  The content of a line    *)
(* of the built-in texts is abstracted to one letter per line.             *)
(***************************************************************************)
EXTENDS Integers, Sequences, FiniteSets, Bags, TLC

VARIABLES
    code,            \* useState: the editor buffer                (line 27)
    language,        \* useState: target language                  (line 28)
    mode,            \* useState: persona                          (line 30)
    loading,         \* useState: request-progress flag            (line 31)
    result,          \* useState: CodeReviewResult | null          (line 32)
    error,           \* useState: string | null                    (line 33)
    isBackendOnline, \* useState: reachability flag                (line 34)
    logs,            \* useState: the activity log                 (line 35)
    probe,           \* the init effect: "pending" until its await resumes
    inflight,        \* analyzeCode promises that have not settled yet
    pendingReads,    \* FileReader reads that have not fired onload yet
    issued,          \* history: number of analyzeCode calls made so far
    appended,        \* history: every entry ever passed to addLog, in order
    edits,           \* history: number of input events dispatched so far
    lastEvent,       \* history: the handler that ran last
    origin,          \* history: the count of requests when the buffer was last
                     \* replaced, and the request that result came from
    ref              \* the same inputs applied to a run whose probe never answers

vars == <<code, language, mode, loading, result, error, isBackendOnline, logs,
          probe, inflight, pendingReads, issued, appended, edits, lastEvent, origin,
          ref>>

(***************************************************************************)
(* Bounds of the exploration.                                              *)
(***************************************************************************)
MaxSubmits == 2
MaxEdits == 1
MaxAppends == 27
MaxLineCount == 10

(***************************************************************************)
(* Values.                                                                 *)
(***************************************************************************)
Null == [null |-> TRUE]

NoError == "<null>"

Whitespace == {" ", "\n", "\t"}

RECURSIVE Repeat(_, _)
Repeat(ch, n) == IF n <= 1 THEN <<ch>> ELSE <<ch, "\n">> \o Repeat(ch, n - 1)

InitialCode == Repeat("s", 6)

SAMPLES ==
    ("Memory Leak (JS)" :> Repeat("m", 6)) @@
    ("SQL Injection (Py)" :> Repeat("q", 6)) @@
    ("Inefficient Loop (TS)" :> Repeat("l", 9))

SUPPORTED_LANGUAGES == <<"Auto-detect", "C++", "Java", "C", "Python">>

Personas == <<"strict", "mentor", "debugger", "performance">>

provider == "gemini"

(***************************************************************************)
(* Inputs: what the user can type or load, and what the network returns.   *)
(***************************************************************************)
TypedTexts == { <<" ", "\n">>, <<"x", "\n", "y">> }

FileTexts == { <<"f">> }

SampleChoices == { "Inefficient Loop (TS)" }

LanguageChoices == { SUPPORTED_LANGUAGES[5] }

PersonaChoices == { Personas[2] }

Issue(n) == [line |-> n]

Results ==
    { [issues |-> <<>>],
      [issues |-> <<Issue(3), Issue(3), Issue(9)>>] }

ErrorMessages == { "Failed to fetch", "HTTP 500" }

(***************************************************************************)
(* String.prototype.trim and String.prototype.split('\n').                 *)
(***************************************************************************)
RECURSIVE trimStart(_)
trimStart(s) ==
    IF s = <<>> THEN <<>>
    ELSE IF Head(s) \in Whitespace THEN trimStart(Tail(s))
    ELSE s

RECURSIVE trimEnd(_)
trimEnd(s) ==
    IF s = <<>> THEN <<>>
    ELSE IF s[Len(s)] \in Whitespace THEN trimEnd(SubSeq(s, 1, Len(s) - 1))
    ELSE s

\* `!code` in place of `!code.trim()`
trimNothing(s) == s

trim(s) == trimEnd(trimStart(s))

RECURSIVE split(_)
split(s) ==
    IF \A i \in 1..Len(s) : s[i] # "\n" THEN <<s>>
    ELSE LET k == CHOOSE i \in 1..Len(s) :
                      s[i] = "\n" /\ \A j \in 1..(i - 1) : s[j] # "\n"
         IN  <<SubSeq(s, 1, k - 1)>> \o split(SubSeq(s, k + 1, Len(s)))

(***************************************************************************)
(* Array.prototype.slice(start) and the functional update of addLog.       *)
(***************************************************************************)
LogKeep == 24

slice(s, start) ==
    LET from == IF start < 0
                THEN (IF Len(s) + start < 0 THEN 0 ELSE Len(s) + start)
                ELSE (IF start > Len(s) THEN Len(s) ELSE start)
    IN  SubSeq(s, from + 1, Len(s))

\* slice(-25) in place of slice(-24)
addLogKeepsOneMore(prev, msg, type) ==
    Append(slice(prev, 0 - (LogKeep + 1)), [msg |-> msg, type |-> type])

addLog(prev, msg, type) == Append(slice(prev, 0 - LogKeep), [msg |-> msg, type |-> type])

(***************************************************************************)
(* The log messages, as the template literals build them.                  *)
(***************************************************************************)
InitMsg == <<"Engine v1.2.0 initialized.">>

InitiationMsg(isAlternative, m, lang) ==
    << IF isAlternative THEN "Regenerating alternative" ELSE "Initiating",
       m, "analysis for", lang, "..." >>

CompleteMsg(data) == <<"Analysis complete:", ToString(Len(data.issues)), "findings.">>

ErrorMsg(message) == <<"Error:", message>>

Entry(msg, type) == [msg |-> msg, type |-> type]

(***************************************************************************)
(* The component's state as one value, and its initial value.              *)
(***************************************************************************)
St ==
    [ code |-> code, language |-> language, mode |-> mode, loading |-> loading,
      result |-> result, error |-> error, isBackendOnline |-> isBackendOnline,
      logs |-> logs, probe |-> probe, inflight |-> inflight,
      pendingReads |-> pendingReads, issued |-> issued, appended |-> appended ]

Mounted ==
    [ code |-> InitialCode, language |-> "Auto-detect", mode |-> "strict",
      loading |-> FALSE, result |-> Null, error |-> NoError,
      isBackendOnline |-> FALSE, logs |-> <<>>, probe |-> "pending",
      inflight |-> {}, pendingReads |-> EmptyBag, issued |-> 0,
      appended |-> <<>> ]

Commit(s) ==
    /\ code' = s.code
    /\ language' = s.language
    /\ mode' = s.mode
    /\ loading' = s.loading
    /\ result' = s.result
    /\ error' = s.error
    /\ isBackendOnline' = s.isBackendOnline
    /\ logs' = s.logs
    /\ probe' = s.probe
    /\ inflight' = s.inflight
    /\ pendingReads' = s.pendingReads
    /\ issued' = s.issued
    /\ appended' = s.appended

Init ==
    /\ code = Mounted.code
    /\ language = Mounted.language
    /\ mode = Mounted.mode
    /\ loading = Mounted.loading
    /\ result = Mounted.result
    /\ error = Mounted.error
    /\ isBackendOnline = Mounted.isBackendOnline
    /\ logs = Mounted.logs
    /\ probe = Mounted.probe
    /\ inflight = Mounted.inflight
    /\ pendingReads = Mounted.pendingReads
    /\ issued = Mounted.issued
    /\ appended = Mounted.appended
    /\ edits = 0
    /\ lastEvent = "mount"
    /\ origin = [replacedAt |-> 0, resultOf |-> 0]
    /\ ref = Mounted

\* a call of addLog, recorded in the history as well
log(s, msg, type) ==
    [s EXCEPT !.logs = addLog(@, msg, type),
              !.appended = Append(@, Entry(msg, type))]

(***************************************************************************)
(* What the render shows.                                                  *)
(***************************************************************************)
lines(s) == split(s.code)

\* the Analyze button without its disabled attribute
AnalyzeNeverDisabled(s) == FALSE

\* the Analyze button disabled until the backend is known to be online
AnalyzeDisabledOffline(s) == s.loading \/ ~s.isBackendOnline

AnalyzeDisabled(s) == s.loading

\* the result panel rendered whenever there is a result, loading or not
ResultPanelShownWhileLoading(s) == s.result # Null

ResultPanelShown(s) ==
    IF s.result = Null /\ ~s.loading THEN FALSE
    ELSE IF s.loading THEN FALSE
    ELSE s.result # Null

(***************************************************************************)
(* The gutter: one row per element of `lines`, a marker on row i when      *)
(* some issue of the result has line === i + 1.                            *)
(***************************************************************************)
RECURSIVE some(_, _)
some(issues, k) ==
    IF issues = <<>> THEN FALSE
    ELSE IF Head(issues).line = k THEN TRUE
    ELSE some(Tail(issues), k)

\* iss.line === i in place of iss.line === i + 1
markerOffByOne(res, i) == IF res = Null THEN FALSE ELSE some(res.issues, i)

marker(res, i) == IF res = Null THEN FALSE ELSE some(res.issues, i + 1)

annotate(lineCount, res) ==
    { i + 1 : i \in { j \in 0..(lineCount - 1) : marker(res, j) } }

gutter(s) == annotate(Len(lines(s)), s.result)

ModeLabel(s) == IF s.isBackendOnline THEN "Hybrid Bridge" ELSE "Cloud Native"

(***************************************************************************)
(* The init effect: the continuation of `await checkBackendStatus()`.      *)
(***************************************************************************)
\* an init effect that reports an unreachable backend as an error
initReportsOffline(s, online) ==
    IF online
    THEN log([s EXCEPT !.isBackendOnline = online, !.probe = "done"], InitMsg, "info")
    ELSE log([s EXCEPT !.isBackendOnline = online, !.probe = "done",
                       !.error = "Backend offline"],
             ErrorMsg("Backend offline"), "err")

init(s, online) ==
    log([s EXCEPT !.isBackendOnline = online, !.probe = "done"], InitMsg, "info")

(***************************************************************************)
(* handleAnalyze up to its await: the guard, the three state updates and   *)
(* the call of analyzeCode with the values of the current render.          *)
(***************************************************************************)
\* the caller replaces the 'Auto-detect' entry by a language of its own choice
analyzeCodeResolvesAuto(s, isAlternative) ==
    [ id |-> s.issued + 1, code |-> s.code,
      language |-> IF s.language = SUPPORTED_LANGUAGES[1]
                   THEN SUPPORTED_LANGUAGES[2] ELSE s.language,
      provider |-> provider, mode |-> s.mode, isAlternative |-> isAlternative ]

analyzeCode(s, isAlternative) ==
    [ id |-> s.issued + 1, code |-> s.code, language |-> s.language,
      provider |-> provider, mode |-> s.mode, isAlternative |-> isAlternative ]

\* handleAnalyze without setError(null)
handleAnalyzeKeepsError(s, isAlternative) ==
    IF trim(s.code) = <<>> THEN s
    ELSE LET started == [s EXCEPT !.loading = TRUE]
             logged  == log(started,
                            InitiationMsg(isAlternative, s.mode, s.language), "info")
         IN  [logged EXCEPT !.inflight = @ \cup {analyzeCode(s, isAlternative)},
                            !.issued = @ + 1]

\* a regenerate that first drops the result it replaces
handleAnalyzeAlternativeDropsResult(s, isAlternative) ==
    IF trim(s.code) = <<>> THEN s
    ELSE LET started == [s EXCEPT !.loading = TRUE, !.error = NoError,
                                  !.result = IF isAlternative THEN Null ELSE @]
             logged  == log(started,
                            InitiationMsg(isAlternative, s.mode, s.language), "info")
         IN  [logged EXCEPT !.inflight = @ \cup {analyzeCode(s, isAlternative)},
                            !.issued = @ + 1]

handleAnalyze(s, isAlternative) ==
    IF trim(s.code) = <<>> THEN s
    ELSE LET started == [s EXCEPT !.loading = TRUE, !.error = NoError]
             logged  == log(started,
                            InitiationMsg(isAlternative, s.mode, s.language), "info")
         IN  [logged EXCEPT !.inflight = @ \cup {analyzeCode(s, isAlternative)},
                            !.issued = @ + 1]

(***************************************************************************)
(* handleAnalyze after its await: the rest of try when the promise         *)
(* resolved, catch when it rejected, and finally in both.                  *)
(***************************************************************************)
\* the completion entry counts the issues of the result held by the render
\* that submitted, not of the response
handleAnalyzeResolvedStaleCount(s, r, data) ==
    LET tried == log([s EXCEPT !.inflight = @ \ {r}, !.result = data],
                     CompleteMsg(IF s.result = Null THEN [issues |-> <<>>] ELSE s.result),
                     "info")
    IN  [tried EXCEPT !.loading = FALSE]

handleAnalyzeResolved(s, r, data) ==
    LET tried == log([s EXCEPT !.inflight = @ \ {r}, !.result = data],
                     CompleteMsg(data), "info")
    IN  [tried EXCEPT !.loading = FALSE]

\* setLoading(false) at the end of try instead of in finally
handleAnalyzeRejectedNoFinally(s, r, message) ==
    log([s EXCEPT !.inflight = @ \ {r}, !.error = message], ErrorMsg(message), "err")

\* a catch block that also drops the previous result
handleAnalyzeRejectedClearsResult(s, r, message) ==
    LET caught == log([s EXCEPT !.inflight = @ \ {r}, !.error = message,
                                !.result = Null],
                      ErrorMsg(message), "err")
    IN  [caught EXCEPT !.loading = FALSE]

\* addLog called without its level argument in the catch block
handleAnalyzeRejectedLogsInfo(s, r, message) ==
    LET caught == log([s EXCEPT !.inflight = @ \ {r}, !.error = message],
                      ErrorMsg(message), "info")
    IN  [caught EXCEPT !.loading = FALSE]

handleAnalyzeRejected(s, r, message) ==
    LET caught == log([s EXCEPT !.inflight = @ \ {r}, !.error = message],
                      ErrorMsg(message), "err")
    IN  [caught EXCEPT !.loading = FALSE]

(***************************************************************************)
(* The input handlers.                                                     *)
(***************************************************************************)
textareaOnChange(s, text) == [s EXCEPT !.code = text]

\* a Clear that also dismisses the error
clearOnClickResetsError(s) == [s EXCEPT !.code = <<>>, !.result = Null, !.error = NoError]

clearOnClick(s) == [s EXCEPT !.code = <<>>, !.result = Null]

sampleOnChange(s, key) == [s EXCEPT !.code = SAMPLES[key], !.result = Null]

fileOnChange(s, text) == [s EXCEPT !.pendingReads = @ (+) SetToBag({text})]

readerOnload(s, text) ==
    [s EXCEPT !.pendingReads = @ (-) SetToBag({text}), !.code = text, !.result = Null]

setLanguage(s, lang) == [s EXCEPT !.language = lang]

setMode(s, p) == [s EXCEPT !.mode = p]

(***************************************************************************)
(* The events.  Each commits its handler's result, and applies the same    *)
(* handler to the reference run when the reference run's render offers it. *)
(***************************************************************************)
probeAnswers(online) ==
    /\ probe = "pending"
    /\ Commit(init(St, online))
    /\ lastEvent' = "init"
    /\ UNCHANGED <<edits, origin, ref>>

clickAnalyze ==
    /\ ~AnalyzeDisabled(St)
    /\ Commit(handleAnalyze(St, FALSE))
    /\ lastEvent' = IF handleAnalyze(St, FALSE) = St THEN "ignored" ELSE "analyze"
    /\ ref' = IF AnalyzeDisabled(ref) THEN ref ELSE handleAnalyze(ref, FALSE)
    /\ UNCHANGED <<edits, origin>>

clickRegenerate ==
    /\ ResultPanelShown(St)
    /\ Commit(handleAnalyze(St, TRUE))
    /\ lastEvent' = IF handleAnalyze(St, TRUE) = St THEN "ignored" ELSE "regenerate"
    /\ ref' = IF ResultPanelShown(ref) THEN handleAnalyze(ref, TRUE) ELSE ref
    /\ UNCHANGED <<edits, origin>>

Twin(r) == { q \in ref.inflight : q.id = r.id }

analyzeResolves(r, data) ==
    /\ r \in inflight
    /\ Commit(handleAnalyzeResolved(St, r, data))
    /\ lastEvent' = "resolved"
    /\ ref' = IF Twin(r) = {} THEN ref
              ELSE handleAnalyzeResolved(ref, CHOOSE q \in Twin(r) : TRUE, data)
    /\ UNCHANGED edits
    /\ origin' = [origin EXCEPT !.resultOf = r.id]

analyzeRejects(r, message) ==
    /\ r \in inflight
    /\ Commit(handleAnalyzeRejected(St, r, message))
    /\ lastEvent' = "rejected"
    /\ ref' = IF Twin(r) = {} THEN ref
              ELSE handleAnalyzeRejected(ref, CHOOSE q \in Twin(r) : TRUE, message)
    /\ UNCHANGED <<edits, origin>>

typeCode(text) ==
    /\ Commit(textareaOnChange(St, text))
    /\ lastEvent' = "type"
    /\ ref' = textareaOnChange(ref, text)
    /\ edits' = edits + 1
    /\ UNCHANGED origin

clickClear ==
    /\ Commit(clearOnClick(St))
    /\ lastEvent' = "clear"
    /\ ref' = clearOnClick(ref)
    /\ edits' = edits + 1
    /\ origin' = [origin EXCEPT !.replacedAt = issued]

loadSample(key) ==
    /\ Commit(sampleOnChange(St, key))
    /\ lastEvent' = "sample"
    /\ ref' = sampleOnChange(ref, key)
    /\ edits' = edits + 1
    /\ origin' = [origin EXCEPT !.replacedAt = issued]

chooseFile(text) ==
    /\ Commit(fileOnChange(St, text))
    /\ lastEvent' = "file"
    /\ ref' = fileOnChange(ref, text)
    /\ edits' = edits + 1
    /\ UNCHANGED origin

fileRead(text) ==
    /\ BagIn(text, pendingReads)
    /\ Commit(readerOnload(St, text))
    /\ lastEvent' = "onload"
    /\ ref' = IF BagIn(text, ref.pendingReads) THEN readerOnload(ref, text) ELSE ref
    /\ UNCHANGED edits
    /\ origin' = [origin EXCEPT !.replacedAt = issued]

chooseLanguage(lang) ==
    /\ Commit(setLanguage(St, lang))
    /\ lastEvent' = "language"
    /\ ref' = setLanguage(ref, lang)
    /\ edits' = edits + 1
    /\ UNCHANGED origin

chooseMode(p) ==
    /\ Commit(setMode(St, p))
    /\ lastEvent' = "mode"
    /\ ref' = setMode(ref, p)
    /\ edits' = edits + 1
    /\ UNCHANGED origin

(***************************************************************************)
(* The specification: every event the component can receive.               *)
(***************************************************************************)
Next ==
    \/ \E online \in BOOLEAN : probeAnswers(online)
    \/ issued < MaxSubmits /\ clickAnalyze
    \/ issued < MaxSubmits /\ clickRegenerate
    \/ \E r \in inflight, data \in Results : analyzeResolves(r, data)
    \/ \E r \in inflight, message \in ErrorMessages : analyzeRejects(r, message)
    \/ edits < MaxEdits /\ \E text \in TypedTexts : typeCode(text)
    \/ edits < MaxEdits /\ clickClear
    \/ edits < MaxEdits /\ \E key \in SampleChoices : loadSample(key)
    \/ edits < MaxEdits /\ \E text \in FileTexts : chooseFile(text)
    \/ \E text \in FileTexts : fileRead(text)
    \/ edits < MaxEdits /\ \E lang \in LanguageChoices : chooseLanguage(lang)
    \/ edits < MaxEdits /\ \E p \in PersonaChoices : chooseMode(p)

Spec == Init /\ [][Next]_vars

(***************************************************************************)
(* The same component driven long enough for the log to overflow: only     *)
(* the events that append to the log, with one probe outcome, one result   *)
(* and one failure message.                                                *)
(***************************************************************************)
LogResult == [issues |-> <<Issue(3), Issue(3), Issue(9)>>]

LogFailure == "Failed to fetch"

NextLog ==
    \/ Len(appended) < MaxAppends /\ probeAnswers(TRUE)
    \/ Len(appended) + 2 <= MaxAppends /\ clickAnalyze
    \/ \E r \in inflight : analyzeResolves(r, LogResult)
    \/ \E r \in inflight : analyzeRejects(r, LogFailure)

SpecLog == Init /\ [][NextLog]_vars

(***************************************************************************)
(* The component driven by the events that change what the gutter is       *)
(* computed from, the buffer and the result, with every sample and with    *)
(* results whose issue lines lie on, inside and outside the buffer's ends. *)
(***************************************************************************)
GutterResults ==
    Results \cup { [issues |-> <<Issue(0), Issue(1), Issue(2), Issue(10)>>] }

NextGutter ==
    \/ issued < MaxSubmits /\ clickAnalyze
    \/ issued < MaxSubmits /\ clickRegenerate
    \/ \E r \in inflight, data \in GutterResults : analyzeResolves(r, data)
    \/ edits < MaxEdits /\ \E text \in TypedTexts : typeCode(text)
    \/ edits < MaxEdits /\ clickClear
    \/ edits < MaxEdits /\ \E key \in DOMAIN SAMPLES : loadSample(key)

SpecGutter == Init /\ [][NextGutter]_vars

(***************************************************************************)
(* Properties.                                                             *)
(***************************************************************************)
Blank(text) == \A i \in 1..Len(text) : text[i] \in Whitespace

Succeeded == ~loading /\ error = NoError /\ result # Null

Failed == ~loading /\ error # NoError

Observed(s) ==
    [ loading |-> s.loading, error |-> s.error, result |-> s.result,
      inflight |-> s.inflight, issued |-> s.issued ]

\* C1: the overlap policy is reject-while-busy.  Every request still in
\* flight is the most recently issued one, and while a request is in flight
\* the render offers no control that calls handleAnalyze; so a response never
\* arrives for a request that a later submission has superseded, and none
\* can write stale data into result, error or loading.
NoStaleResponse ==
    /\ \A r \in inflight : r.id = issued
    /\ inflight # {} => AnalyzeDisabled(St) /\ ~ResultPanelShown(St)

\* a second request in flight while the first one's result is retained:
\* the result panel, and with it Regenerate, is hidden and Analyze is disabled
BusyWithEarlierResult ==
    /\ inflight # {}
    /\ issued = 2
    /\ result # Null
    /\ AnalyzeDisabled(St)
    /\ ~ResultPanelShown(St)

\* C2: when the analyze call of an accepted submit settles, the state is
\* exactly one of Succeeded and Failed (Succeeded after a resolve, Failed
\* after a reject) with loading false, and loading is never true once every
\* analyze call has settled.
SettledIsTerminal ==
    /\ lastEvent \in {"resolved", "rejected"} => (Succeeded # Failed)
    /\ lastEvent = "resolved" => Succeeded
    /\ lastEvent = "rejected" => Failed
    /\ inflight = {} => ~loading

SettledAfterFailure ==
    /\ lastEvent = "rejected"
    /\ inflight = {}
    /\ Failed
    /\ ~Succeeded

\* C3: a call of handleAnalyze while the buffer is empty or all whitespace
\* changes neither loading, error, result nor the log, appends no log entry
\* and makes no analyze call.
BlankSubmitIsNoOp ==
    [][ (Blank(code) /\ (clickAnalyze \/ clickRegenerate))
        => UNCHANGED <<loading, error, result, logs, appended, inflight, issued>> ]_vars

\* a submit on a blank buffer was ignored in a state with an error on display
BlankSubmitIgnored ==
    /\ lastEvent = "ignored"
    /\ Blank(code)
    /\ error # NoError
    /\ Len(logs) > 0

\* C4: a failed analyze call leaves result as it was (in particular the
\* result of an earlier success stays) and sets error to the failure's
\* message, the one its log entry carries.
FailureKeepsLastResult ==
    [][ lastEvent' = "rejected"
        => /\ result' = result
           /\ error' \in ErrorMessages
           /\ appended'[Len(appended')] = Entry(ErrorMsg(error'), "err") ]_vars

\* submit -> Succeeded(R1); submit -> Failed(E): R1 and E are both on display
FailedWithRetainedResult ==
    /\ lastEvent = "rejected"
    /\ result # Null
    /\ error # NoError

\* C5: the log holds at most 25 entries and is exactly the most recent
\* min(n, 25) of the n entries appended so far, oldest first.
LogIsMostRecent ==
    LET n == Len(appended)
        kept == IF n < 25 THEN n ELSE 25
    IN  /\ Len(logs) <= 25
        /\ logs = SubSeq(appended, n - kept + 1, n)

\* more than 25 entries were appended, by the probe and by submits
LogOverflowed ==
    /\ Len(appended) > 25
    /\ Len(logs) = 25
    /\ probe = "done"
    /\ \E i \in 1..Len(logs) : logs[i].type = "err"

\* C6: loading is never true while error is non-null, and every completion
\* of a request, resolved or rejected, leaves loading false.
RequestStateExclusive ==
    /\ ~(loading /\ error # NoError)
    /\ lastEvent \in {"resolved", "rejected"} => ~loading

\* a request in flight after an earlier one failed: the error was cleared
ResubmittedAfterFailure ==
    /\ loading
    /\ error = NoError
    /\ \E i \in 1..Len(logs) : logs[i].type = "err"

IssueLines(n, res) ==
    { k \in 1..n : res # Null /\ \E j \in 1..Len(res.issues) : res.issues[j].line = k }

\* C7: for every line count n the annotated lines are exactly the k in 1..n
\* that some issue of the result names (issues outside 1..n give no marker,
\* several issues on one line give one, n = 0 gives none); the gutter is
\* that set for the buffer's line count.
AnnotatedLinesExact ==
    /\ \A n \in 0..MaxLineCount : annotate(n, result) = IssueLines(n, result)
    /\ gutter(St) = IssueLines(Len(lines(St)), result)

\* the buffer was retyped shorter than every issue line of the result on
\* display: no marker; and on five lines issues 3, 3, 9 give the one marker 3
StaleIssuesOnShortBuffer ==
    /\ lastEvent = "type"
    /\ result # Null
    /\ Len(result.issues) = 3
    /\ Len(lines(St)) = 2
    /\ gutter(St) = {}
    /\ annotate(5, result) = {3}
    /\ annotate(0, result) = {}

\* C8 as stated: every handler other than submit and its completions leaves
\* loading, error, result and the log unchanged.
OnlySubmitMutates ==
    [][ lastEvent' \in {"type", "clear", "sample", "file", "onload", "language",
                        "mode", "init"}
        => UNCHANGED <<loading, error, result, logs>> ]_vars

\* C8 as amended: typing, choosing a file, a language or a mode leave loading,
\* error, result and the log unchanged; Clear, a sample load and a finished
\* file load leave loading, error and the log unchanged and set result to
\* null; the startup probe leaves loading, error and result unchanged and
\* appends one info entry to the log.
OtherHandlersFrame ==
    [][ /\ lastEvent' \in {"type", "file", "language", "mode"}
           => UNCHANGED <<loading, error, result, logs>>
        /\ lastEvent' \in {"clear", "sample", "onload"}
           => UNCHANGED <<loading, error, logs>> /\ result' = Null
        /\ lastEvent' = "init"
           => /\ UNCHANGED <<loading, error, result>>
              /\ appended' = Append(appended, Entry(InitMsg, "info"))
              /\ logs'[Len(logs')] = Entry(InitMsg, "info") ]_vars

\* Clear after a success: the result is gone, the log is as it was
ClearedAfterSuccess ==
    /\ lastEvent = "clear"
    /\ result = Null
    /\ Len(logs) > 0
    /\ logs[Len(logs)].msg[1] = "Analysis complete:"

\* C9: at most one analyze call is in flight.
SingleFlight == Cardinality(inflight) <= 1

SecondRequestInFlight ==
    /\ Cardinality(inflight) = 1
    /\ issued = 2

\* C10: a run in which the probe has answered, whenever and with whatever
\* outcome, offers the submit controls in exactly the states in which the
\* run on the same inputs whose probe has not answered offers them, and the
\* two runs agree at every step on loading, error, result and the analyze
\* calls made.
ProbeDoesNotGate ==
    /\ AnalyzeDisabled(St) = AnalyzeDisabled(ref)
    /\ ResultPanelShown(St) = ResultPanelShown(ref)
    /\ Observed(St) = Observed(ref)

\* a submit completed in a run whose probe answered "online", beside the
\* run whose probe is still pending
SubmitAfterProbeOnline ==
    /\ isBackendOnline
    /\ ref.probe = "pending"
    /\ ~ref.isBackendOnline
    /\ lastEvent = "resolved"
    /\ issued = 2

\* C11: when an analyze call fails with message m, the handler catches it:
\* error becomes m, exactly one entry is appended to the log, at level 'err'
\* and carrying m, result is untouched, loading becomes false and the
\* Analyze button is offered again, so that a later submit is accepted.
FailureIsCaught ==
    [][ \A r \in inflight, m \in ErrorMessages :
          analyzeRejects(r, m)
          => /\ error' = m
             /\ appended' = Append(appended, [msg |-> <<"Error:", m>>, type |-> "err"])
             /\ logs'[Len(logs')] = [msg |-> <<"Error:", m>>, type |-> "err"]
             /\ ~loading'
             /\ ~AnalyzeDisabled(St')
             /\ r \notin inflight' ]_vars

\* a submit was accepted after a failure
ResubmitAcceptedAfterFailure ==
    /\ lastEvent = "analyze"
    /\ issued = 2
    /\ Len(appended) >= 2
    /\ appended[Len(appended) - 1].type = "err"

InitiationEntries(h) ==
    { i \in 1..Len(h) : h[i].msg[1] \in {"Initiating", "Regenerating alternative"} }

CompletionEntries(h) ==
    { i \in 1..Len(h) : h[i].msg[1] \in {"Analysis complete:", "Error:"} }

\* C12: an accepted submit sets loading and clears the previous error,
\* appends one initiation entry that names fresh or alternative, the mode and
\* the language, and has analyze invoked with one new request; the request's
\* completion comes after that and appends exactly one entry, which on
\* success is at level 'info' and reports the number of issues of the result
\* stored by that same completion.
SubmitStepsInOrder ==
    [][ /\ lastEvent' \in {"analyze", "regenerate"}
           => /\ loading' /\ error' = NoError
              /\ appended' =
                   Append(appended,
                          [msg  |-> << IF lastEvent' = "regenerate"
                                       THEN "Regenerating alternative"
                                       ELSE "Initiating",
                                       mode, "analysis for", language, "..." >>,
                           type |-> "info"])
              /\ \E q \in inflight' \ inflight :
                     /\ inflight' = inflight \cup {q}
                     /\ q.isAlternative = (lastEvent' = "regenerate")
        /\ lastEvent' \in {"resolved", "rejected"}
           => /\ Cardinality(InitiationEntries(appended))
                   = Cardinality(CompletionEntries(appended)) + Cardinality(inflight)
              /\ Cardinality(inflight') = Cardinality(inflight) - 1
              /\ Len(appended') = Len(appended) + 1
              /\ Len(appended') \in CompletionEntries(appended')
        /\ lastEvent' = "resolved"
           => /\ result' # Null
              /\ appended'[Len(appended')] =
                   [msg  |-> <<"Analysis complete:", ToString(Len(result'.issues)),
                               "findings.">>,
                    type |-> "info"] ]_vars

\* a regenerate submit completed with a result of three issues
RegenerateCompletedWithThree ==
    /\ lastEvent = "resolved"
    /\ result # Null
    /\ Len(result.issues) = 3
    /\ appended[Len(appended)].msg[2] = "3"
    /\ appended[Len(appended) - 1].msg[1] = "Regenerating alternative"

\* a log with the first word of every initiation entry replaced by one word
NeutralLog(h) ==
    [ i \in 1..Len(h) |->
        IF i \in InitiationEntries(h)
        THEN [h[i] EXCEPT !.msg = [@ EXCEPT ![1] = "Initiating"]]
        ELSE h[i] ]

\* a state with the isAlternative flag of its requests and the wording of its
\* initiation entries erased
Neutral(s) ==
    [s EXCEPT !.inflight = { [q EXCEPT !.isAlternative = FALSE] : q \in @ },
              !.logs     = NeutralLog(@),
              !.appended = NeutralLog(@)]

\* C13: from the same state and with the same network outcome, a submit with
\* isAlternative true and one with isAlternative false produce the same
\* loading, error, result and the same number and levels of log entries, both
\* after the submit and after its completion; they differ in nothing but the
\* flag passed to analyze and the wording of the initiation entry.
AlternativeSameMachine ==
    trim(code) # <<>>
    => LET alt   == handleAnalyze(St, TRUE)
           fresh == handleAnalyze(St, FALSE)
           ra    == analyzeCode(St, TRUE)
           rf    == analyzeCode(St, FALSE)
       IN  /\ ra \in alt.inflight /\ rf \in fresh.inflight
           /\ ra.isAlternative /\ ~rf.isAlternative
           /\ alt.appended[Len(alt.appended)] # fresh.appended[Len(fresh.appended)]
           /\ Neutral(alt) = Neutral(fresh)
           /\ \A data \in Results :
                Neutral(handleAnalyzeResolved(alt, ra, data))
                  = Neutral(handleAnalyzeResolved(fresh, rf, data))
           /\ \A m \in ErrorMessages :
                Neutral(handleAnalyzeRejected(alt, ra, m))
                  = Neutral(handleAnalyzeRejected(fresh, rf, m))

\* a regenerate submit is in flight while the result it replaces is retained
RegenerateInFlight ==
    /\ lastEvent = "regenerate"
    /\ result # Null
    /\ \E q \in inflight : q.isAlternative

\* C14: the analyze call of an accepted submit carries the buffer text, the
\* language ('Auto-detect' included, as it stands), the provider and the
\* mode of the state in which the submit was made, and no later edit changes
\* a request that is in flight.
RequestCarriesSubmitValues ==
    [][ /\ lastEvent' \in {"analyze", "regenerate"}
           => \E q \in inflight' \ inflight :
                 /\ inflight' \ inflight = {q}
                 /\ q.code = code
                 /\ q.language = language
                 /\ q.provider = "gemini"
                 /\ q.mode = mode
                 /\ q.isAlternative = (lastEvent' = "regenerate")
        /\ lastEvent' \notin {"resolved", "rejected"}
           => inflight \subseteq inflight'
        /\ inflight' \subseteq inflight
             \/ lastEvent' \in {"analyze", "regenerate"} ]_vars

\* the language was changed while a request made under 'Auto-detect' is in
\* flight
AutoDetectRequestOutlivesChoice ==
    \E q \in inflight : q.language = "Auto-detect" /\ language # "Auto-detect"

\* C15: isBackendOnline is false as long as the probe has not answered and
\* only the probe's answer writes it; the answer, false included, does not
\* write error, loading or result, appends one entry at level 'info' and no
\* entry at level 'err', and a false answer selects the label 'Cloud Native',
\* whether or not a submit is in flight or has failed meanwhile.
ProbeIsNotAnErrorSource ==
    /\ [](probe = "pending" => ~isBackendOnline)
    /\ [][ /\ isBackendOnline' # isBackendOnline => lastEvent' = "init"
           /\ \A online \in BOOLEAN :
                probeAnswers(online)
                => /\ isBackendOnline' = online
                   /\ error' = error
                   /\ loading' = loading
                   /\ result' = result
                   /\ inflight' = inflight
                   /\ Len(appended') = Len(appended) + 1
                   /\ appended'[Len(appended')].type = "info"
                   /\ ~online => ModeLabel(St') = "Cloud Native" ]_vars

\* the probe answered false while a submit was in flight
ProbeFailedDuringRequest ==
    /\ lastEvent = "init"
    /\ ~isBackendOnline
    /\ loading
    /\ error = NoError
    /\ ModeLabel(St) = "Cloud Native"

\* C16: whenever result is non-null, the request it was returned for was
\* issued after the most recent replacement of the buffer by Clear, a sample
\* or a file.
ResultIsForCurrentBuffer ==
    result # Null => origin.resultOf > origin.replacedAt

\* C17: loading is true exactly when an analyze request has been issued and
\* has not settled, and the Analyze button is disabled exactly then.
LoadingTracksRequest ==
    /\ loading <=> inflight # {}
    /\ AnalyzeDisabled(St) <=> inflight # {}
    /\ Cardinality(inflight) =
         issued - Cardinality(CompletionEntries(appended))

\* the second request has settled and the button is offered again
SecondRequestSettled ==
    /\ issued = 2
    /\ inflight = {}
    /\ ~loading
    /\ lastEvent \in {"resolved", "rejected"}

\* the last entry of the history that reports the completion of a request
LastCompletion ==
    appended[CHOOSE i \in CompletionEntries(appended) :
                \A j \in CompletionEntries(appended) : j <= i]

\* C18: when no request is in flight, error is non-null exactly when the
\* request that settled last failed, and it is then that request's message;
\* after a success error is null, whatever earlier requests did.
ErrorIsOfLastSettled ==
    inflight = {}
    => IF CompletionEntries(appended) = {}
       THEN error = NoError
       ELSE /\ error # NoError <=> LastCompletion.type = "err"
            /\ LastCompletion.type = "err" => LastCompletion.msg = <<"Error:", error>>
            /\ LastCompletion.msg[1] = "Analysis complete:" => error = NoError

\* a request succeeded after an earlier one had failed
SucceededAfterFailure ==
    /\ lastEvent = "resolved"
    /\ inflight = {}
    /\ error = NoError
    /\ \E i \in CompletionEntries(appended) : appended[i].type = "err"

====
